---- MODULE Spec2Model ----
(***************************************************************************)
(* Model of the incremental mail fetcher of EmailBot                       *)
(* (src/email_client.py) and of the cycle that drives it (src/main.py).    *)
(*                                                                         *)
(* Time is counted in ticks; one calendar day has DayLen ticks, so the     *)
(* "24 hours" of the first-run window is DayLen ticks and the day of an    *)
(* instant t, which is all that strftime("%d-%b-%Y") keeps, is t \div      *)
(* DayLen.  A message has the date the server filed it under (internal),   *)
(* the naive reading of its Date header (header) and whether it is from   *)
(* the watched sender.                                                     *)
(* Message ids are the positions in the mailbox.                           *)
(*                                                                         *)
(* Every callee of get_new_emails_from_sender wraps its body in            *)
(* "except Exception", so each callee is modelled by its return value and  *)
(* by the exception that leaves it (exc), which is "none" throughout.      *)
(***************************************************************************)
EXTENDS Integers, Sequences, FiniteSets, TLC

\* ---------------------------------------------------------------- bounds
DayLen   == 2     \* ticks in a calendar day (24 hours)
MaxTime  == 5     \* the clock stops ticking here
MaxMsgs  == 2     \* messages that arrive in a run
MaxRetry == 1     \* largest retry_count a direct caller passes
MaxEnv   == 1     \* clock ticks and arrivals between a search and its save
MaxCycles == 2    \* iterations of the loop of start() in a run
MainMsgs  == 2    \* messages in the mailbox the loop of start() reads
MaxTexts  == 102  \* deliveries in a run of the notifier
MaxRestarts == 1  \* restarts of the notifier in a run
MaxSubject == 3   \* words and blanks in a subject line
MaxClauses == 3
MaxReturns == 2      \* cycles that return one message   \* labelled date-times in a message text

\* ------------------------------------------------------------- constants
CycleRetryCount == 3       \* retry_count=3 passed by the cycle
DefaultMaxErrors == 5      \* MAX_ERRORS when the environment sets none
NoCheckpoint == 0 - 1      \* load_last_check_time() returned None
NoDate       == 0 - 1      \* _get_email_date() returned None
LedgerCap == 100           \* "if len(self.sent_messages) > 100"

Kinds == {"ok", "transient", "terminal"}
ConnectOutcomes ==
  {"ok", "ctor_transient", "ctor_terminal", "login_transient", "login_terminal"}

Day(t) == t \div DayLen

\* the failure kind of a connect outcome
ConnectKind(out) ==
  CASE out = "ok" -> "ok"
    [] out \in {"ctor_transient", "login_transient"} -> "transient"
    [] OTHER -> "terminal"

\* ------------------------------------------------------------ sequences
RECURSIVE SelectIds(_, _)
\* the subsequence of ids whose members are in the set keep
SelectIds(ids, keep) ==
  IF ids = <<>> THEN <<>>
  ELSE IF Head(ids) \in keep THEN <<Head(ids)>> \o SelectIds(Tail(ids), keep)
       ELSE SelectIds(Tail(ids), keep)

RECURSIVE UpTo(_, _)
\* the ids of the set s not above n, ascending
UpTo(n, s) ==
  IF n = 0 THEN <<>>
  ELSE IF n \in s THEN Append(UpTo(n - 1, s), n) ELSE UpTo(n - 1, s)

Range(ids) == {ids[i] : i \in 1..Len(ids)}

\* ------------------------------------------------------- checkpoint store
load_last_check_time(file) == file

\* mutant: the checkpoint written with its time of day only, the date lost
save_last_check_time_timeonly(check_time, clock) ==
  IF check_time = NoCheckpoint THEN clock % DayLen ELSE check_time

\* what save_last_check_time(check_time) leaves in the file at time clock
save_last_check_time(check_time, clock) ==
  IF check_time = NoCheckpoint THEN clock ELSE check_time

\* ----------------------------------------------------------- mail session
\* connect(): a failing constructor leaves self.connection as it was, a
\* failing login leaves the new, unauthenticated object in it
connect(conn, out) ==
  CASE out = "ok" -> [ret |-> TRUE, conn |-> "AUTH"]
    [] out \in {"login_transient", "login_terminal"} ->
         [ret |-> FALSE, conn |-> "NONAUTH"]
    [] OTHER -> [ret |-> FALSE, conn |-> conn]

\* select_mailbox(): SELECT is legal on an authenticated connection only
select_mailbox(conn, out) ==
  IF conn \in {"AUTH", "SELECTED"} /\ out = "ok"
  THEN [ret |-> TRUE, conn |-> "SELECTED"]
  ELSE [ret |-> FALSE, conn |-> conn]

_disconnect_internal(conn) == "None"

\* "self.connect() and self.select_mailbox()"; kinds are the outcomes of the
\* transport operations that ran, cause the one that made it return False
connect_and_select(conn, cOut, sOut) ==
  LET c == connect(conn, cOut) IN
  IF ~c.ret
  THEN [ret |-> FALSE, conn |-> c.conn, kinds |-> {ConnectKind(cOut)},
        cause |-> ConnectKind(cOut)]
  ELSE LET s == select_mailbox(c.conn, sOut) IN
       [ret |-> s.ret, conn |-> s.conn, kinds |-> {"ok", sOut},
        cause |-> sOut]

\* _ensure_connection(): NOOP is legal in every protocol state, so a
\* connection object left behind by a failed login or select passes it
_ensure_connection(conn, nOut, cOut, sOut) ==
  IF conn = "None" THEN connect_and_select(conn, cOut, sOut)
  ELSE IF nOut = "ok" /\ conn # "LOGOUT"
       THEN [ret |-> TRUE, conn |-> conn, kinds |-> {"ok"}, cause |-> "ok"]
       ELSE LET r == connect_and_select(_disconnect_internal(conn), cOut, sOut)
            IN [r EXCEPT !.kinds = @ \cup {nOut}]

\* the branch of _ensure_connection() that produced its answer
CheckPath(conn, nOut) ==
  IF conn = "None" THEN "connect"
  ELSE IF nOut = "ok" /\ conn # "LOGOUT" THEN "noop" ELSE "reconnect"

\* the server's answer to (FROM sender SINCE day): ids of the sender's
\* messages filed on that day or later
ServerSearch(mbox, sinceDay) ==
  UpTo(Len(mbox), {i \in 1..Len(mbox) :
                     mbox[i].sender /\ Day(mbox[i].internal) >= sinceDay})

\* mutant: the first-run window not moved back by 24 hours
since_date_today(last_check, clock) ==
  IF last_check = NoCheckpoint THEN Day(clock) ELSE Day(last_check)

\* the day named in the SINCE criterion
since_date(last_check, clock) ==
  IF last_check = NoCheckpoint THEN Day(clock - DayLen) ELSE Day(last_check)

\* mutant: a date is answered for every candidate
_get_email_date_kept(mbox, id, failed) == mbox[id].header

\* _get_email_date(): the naive header date; None for the ids in failed,
\* those whose header fetch fails or whose Date line does not parse
_get_email_date(mbox, id, failed) ==
  IF id \in failed THEN NoDate ELSE mbox[id].header

\* mutant: a message dated exactly at the checkpoint counts as new
IsNew_inclusive(email_date, last_check) ==
  email_date # NoDate /\ email_date >= last_check

\* "if email_date and email_date > last_check"
IsNew(email_date, last_check) ==
  email_date # NoDate /\ email_date > last_check

\* search_new_emails_from_sender(): out is the outcome of connection.search,
\* failed the ids whose header fetch fails
search_new_emails_from_sender(conn, file, clock, mbox, out, failed) ==
  LET last_check == load_last_check_time(file)
      all == IF conn = "SELECTED" /\ out = "ok"
             THEN ServerSearch(mbox, since_date(last_check, clock))
             ELSE <<>>
      new == IF last_check # NoCheckpoint
             THEN SelectIds(all, {i \in Range(all) :
                      IsNew(_get_email_date(mbox, i, failed), last_check)})
             ELSE all
  IN [ids |-> new, all |-> all, last_check |-> last_check, exc |-> "none",
      kind |-> IF conn = "SELECTED" THEN out ELSE "terminal"]

\* get_email_content(): the decoded message, None on any failure
get_email_content(id, out) ==
  [data |-> IF out = "ok" THEN id ELSE 0, exc |-> "none"]

\* mutant: a message that cannot be read empties the batch
AppendIfData_abort(emails, data) ==
  IF data # 0 THEN Append(emails, data) ELSE <<>>

\* "if email_data: emails.append(email_data)"
AppendIfData(emails, data) ==
  IF data # 0 THEN Append(emails, data) ELSE emails

\* ------------------------------------------------- get_new_emails_from_sender
\* mutant: one iteration short
MoreAttempts_short(attempt, n) == attempt < n - 1

\* "for attempt in range(retry_count)"
MoreAttempts(attempt, n) == attempt < n

\* mutant: the answer of the check ignored
CheckPassed_ignored(ret) == TRUE

\* "if not self._ensure_connection(): continue"
CheckPassed(ret) == ret

\* mutant: the flag ignored
ShouldSave_always(update) == TRUE

\* "if update_state: self.save_last_check_time()"
ShouldSave(update) == update

\* a returned value: a list of messages, or None
EmptyList == [isList |-> TRUE, items |-> <<>>]

\* mutant: the function falls off its end
ExhaustedResult_none == [isList |-> FALSE, items |-> <<>>]

\* the value returned after the loop: "return []"
ExhaustedResult == EmptyList

RECURSIVE LatestHeader(_, _)
\* the latest header date among the messages ems
LatestHeader(mbox, ems) ==
  IF ems = <<>> THEN NoCheckpoint
  ELSE LET rest == LatestHeader(mbox, Tail(ems))
           d == mbox[Head(ems)].header
       IN IF d > rest THEN d ELSE rest

\* mutant: the checkpoint moved to the date of the latest message
SaveArg_latest(mbox, ems) == LatestHeader(mbox, ems)

\* the argument of "self.save_last_check_time()": none
SaveArg(mbox, ems) == NoCheckpoint

\* the substring test on the error text
IsConnectionError(kind) == kind = "transient"

\* ------------------------------------------------------------- parser.py
\* What the extractors find in a message: a keyword phrase in the subject or
\* in the body, an operator, a start time, an end time, a work type.  The
\* description is never absent (_extract_description always returns text).
Contents ==
  [kwSubject : BOOLEAN, kwBody : BOOLEAN, operator : BOOLEAN,
   start_time : BOOLEAN, end_time : BOOLEAN, work_type : BOOLEAN]

\* mutant: every message passes the gate
is_maintenance_email_always(c) == TRUE

\* is_maintenance_email(): a keyword phrase in lower(subject) + " " + lower(body)
is_maintenance_email(c) == c.kwSubject \/ c.kwBody

\* mutant: a record needs the operator and both times
parse_email_strict(c) ==
  IF c.operator /\ c.start_time /\ c.end_time
  THEN [isRecord |-> TRUE, operator |-> c.operator, start_time |-> c.start_time,
        end_time |-> c.end_time, work_type |-> c.work_type]
  ELSE [isRecord |-> FALSE, operator |-> FALSE, start_time |-> FALSE,
        end_time |-> FALSE, work_type |-> FALSE]

\* parse_email(): the record, or None (isRecord false) when none of operator,
\* start_time, end_time was found
parse_email(c) ==
  IF c.operator \/ c.start_time \/ c.end_time
  THEN [isRecord |-> TRUE, operator |-> c.operator, start_time |-> c.start_time,
        end_time |-> c.end_time, work_type |-> c.work_type]
  ELSE [isRecord |-> FALSE, operator |-> FALSE, start_time |-> FALSE,
        end_time |-> FALSE, work_type |-> FALSE]

\* ----------------------------------------------- the extractors on text
\* A subject line is a sequence of words and blanks (" ").  A message text,
\* as far as the time patterns see it, is a sequence of clauses: a label, what
\* stands between the label and the value, and a date-time value.  Russian
\* words are written in Latin letters.
Blank == " "

\* str.lower() on a word
lower(word) ==
  CASE word \in {"Re:", "RE:"} -> "re:"
    [] word = "RABOTY" -> "raboty"
    [] word = "Vneplanovye" -> "vneplanovye"
    [] word = "Broken pipe" -> "broken pipe"
    [] word = "Connection" -> "connection"
    [] word = "Network" -> "network"
    [] OTHER -> word

RECURSIVE lstrip(_)
lstrip(s) ==
  IF s # <<>> /\ Head(s) = Blank THEN lstrip(Tail(s)) ELSE s

RECURSIVE rstrip(_)
rstrip(s) ==
  IF s # <<>> /\ s[Len(s)] = Blank THEN rstrip(SubSeq(s, 1, Len(s) - 1)) ELSE s

\* str.strip()
strip(s) == rstrip(lstrip(s))

\* re.sub(r'^\s*[Rr][Ee]:\s*', '', subject): one reply prefix at the start,
\* with the blanks around it, is removed
StripReply(s) ==
  LET t == lstrip(s)
  IN IF t # <<>> /\ lower(Head(t)) = "re:" THEN lstrip(Tail(t)) ELSE s

\* the words that hold one of 'raboty', 'rabot', 'obsluzhivanie', 'tehnichesk'
work_indicators == {"raboty"}

\* "any(indicator in clean_subject.lower() for indicator in work_indicators)"
HasIndicator(s) == \E i \in 1..Len(s) : lower(s[i]) \in work_indicators

\* None, and a found text
Absent == [found |-> FALSE, text |-> <<>>]
Found(text) == [found |-> TRUE, text |-> text]

\* the patterns and keywords that _extract_work_type tries on the whole text
\* when the subject gave nothing; phrase is the work-type phrase of the body
WorkTypeFromText(phrase) ==
  IF phrase = "none" THEN Absent ELSE Found(<<phrase>>)

\* mutant: the phrases of the text are tried before the subject
_extract_work_type_textfirst(subject, phrase) ==
  IF phrase # "none" THEN WorkTypeFromText(phrase)
  ELSE LET clean_subject == strip(StripReply(strip(subject)))
       IN IF subject # <<>> /\ HasIndicator(clean_subject)
          THEN Found(clean_subject) ELSE Absent

\* _extract_work_type(): the subject without its reply prefix when it holds a
\* work indicator, else what the text patterns give
_extract_work_type(subject, phrase) ==
  LET clean_subject == strip(StripReply(strip(subject)))
  IN IF subject # <<>> /\ HasIndicator(clean_subject)
     THEN Found(clean_subject)
     ELSE WorkTypeFromText(phrase)

\* the labels of patterns['start_time'] and patterns['end_time'], in the
\* order of the lists
StartLabels == <<"Nachalo rabot", "Nachalo", "s">>
EndLabels == <<"Okonchanie rabot", "Okonchanie", "po">>

\* "[:\s]*\*?\*?\s*" between the label and the value: a colon, blanks and a
\* pair of asterisks pass, a dash does not
Separators == {":** ", " - "}
SepMatches(sep) == sep = ":** "

NoValue == "None"

RECURSIVE FirstMatch(_, _)
\* re.search(pattern, text): the value of the leftmost match of one pattern
FirstMatch(label, clauses) ==
  IF clauses = <<>> THEN NoValue
  ELSE IF Head(clauses).label = label /\ SepMatches(Head(clauses).sep)
       THEN Head(clauses).value
       ELSE FirstMatch(label, Tail(clauses))

RECURSIVE ExtractTime_textorder(_, _)
\* mutant: the leftmost labelled value of the text, whichever pattern it is
ExtractTime_textorder(labels, clauses) ==
  IF clauses = <<>> THEN NoValue
  ELSE IF Head(clauses).label \in Range(labels) /\ SepMatches(Head(clauses).sep)
       THEN Head(clauses).value
       ELSE ExtractTime_textorder(labels, Tail(clauses))

RECURSIVE ExtractTime(_, _)
\* "for pattern in self.patterns[...]: match = re.search(...); if match:
\* return match.group(1).strip()"
ExtractTime(labels, clauses) ==
  IF labels = <<>> THEN NoValue
  ELSE LET m == FirstMatch(Head(labels), clauses)
       IN IF m # NoValue THEN m ELSE ExtractTime(Tail(labels), clauses)

_extract_start_time(clauses) == ExtractTime(StartLabels, clauses)
_extract_end_time(clauses) == ExtractTime(EndLabels, clauses)

\* A mention of an operator is the words before a name and the name.  The
\* label "operator" stands for "operator <name> soobshchil".
MentionLabels ==
  {"operator", "operatora", "storone operatora", "platforme", "platformy",
   "raboty na platforme"}
MentionNames == {"Motiv", "Devino Telecom", "DEVINO"}

\* operator_patterns in the order of the list: the labels whose text a
\* pattern matches and the names it takes.  The sixth pattern of the list,
\* "raboty na storone operatora", matches only where the second does.
OperatorPatterns ==
  <<[labels |-> {"operator"}, names |-> MentionNames],
    [labels |-> {"operatora", "storone operatora"}, names |-> MentionNames],
    [labels |-> {"storone operatora"}, names |-> MentionNames],
    [labels |-> {"platforme", "raboty na platforme"},
     names |-> {"Devino Telecom"}],
    [labels |-> {"platformy"}, names |-> {"DEVINO"}],
    [labels |-> {"raboty na platforme"}, names |-> MentionNames]>>

RECURSIVE FirstMention(_, _)
\* the name of the leftmost mention that pattern k matches
FirstMention(k, mentions) ==
  IF mentions = <<>> THEN NoValue
  ELSE IF /\ Head(mentions).label \in OperatorPatterns[k].labels
          /\ Head(mentions).name \in OperatorPatterns[k].names
       THEN Head(mentions).name
       ELSE FirstMention(k, Tail(mentions))

\* "if 'devino' in operator.lower(): return 'Devino Telecom'"
OperatorName(name) ==
  IF name \in {"Devino Telecom", "DEVINO"} THEN "Devino Telecom" ELSE name

RECURSIVE OperatorFrom(_, _)
OperatorFrom(k, mentions) ==
  IF k > Len(OperatorPatterns) THEN NoValue
  ELSE LET m == FirstMention(k, mentions)
       IN IF m # NoValue THEN OperatorName(m) ELSE OperatorFrom(k + 1, mentions)

\* _extract_operator(): the patterns in turn, then the list of known names
\* looked for anywhere in the text
_extract_operator(mentions) ==
  LET byPattern == OperatorFrom(1, mentions)
      named == {i \in 1..Len(mentions) :
                  mentions[i].name \in {"Motiv", "Devino Telecom"}}
  IN IF byPattern # NoValue THEN byPattern
     ELSE IF \E i \in named : mentions[i].name = "Motiv" THEN "Motiv"
     ELSE IF named # {} THEN "Devino Telecom"
     ELSE NoValue

\* parse_email() on a text: the dictionary, and whether it is returned
ParseText(m) ==
  LET operator == _extract_operator(m.mentions)
      start_time == _extract_start_time(m.clauses)
      end_time == _extract_end_time(m.clauses)
  IN [isRecord |-> operator # NoValue \/ start_time # NoValue
                     \/ end_time # NoValue,
      operator |-> operator, start_time |-> start_time, end_time |-> end_time,
      work_type |-> _extract_work_type(m.subject, m.phrase)]

\* format_for_telegram(): the text shows the fields of the record of message
\* id and ends with the time of formatting
format_for_telegram(id, record, clock) ==
  [kind |-> "notice", of |-> id, at |-> clock]

\* ------------------------------------------------------- telegram_bot.py
\* the first 16 hex digits of the MD5 of the text
_create_message_hash(message) == [md5 |-> message]

\* "return data.get('messages', [])"
_load_sent_messages(file) == file

\* mutant: the oldest entries kept
KeepLast_oldest(ledger) ==
  IF Len(ledger) > LedgerCap THEN SubSeq(ledger, 1, LedgerCap) ELSE ledger

\* "self.sent_messages = self.sent_messages[-100:]"
KeepLast(ledger) ==
  IF Len(ledger) > LedgerCap
  THEN SubSeq(ledger, Len(ledger) - LedgerCap + 1, Len(ledger))
  ELSE ledger

\* mutant: the ledger is not consulted
IsDuplicate_never(ledger, hash) == FALSE

\* "if message_hash in self.sent_messages"
IsDuplicate(ledger, hash) == hash \in Range(ledger)

\* send_message(): out is the outcome of bot.send_message.  contacted tells
\* whether the chat channel was called, ledger and file are the in-memory and
\* the persisted ledger afterwards.
send_message(ledger, file, message, out) ==
  LET hash == _create_message_hash(message) IN
  IF IsDuplicate(ledger, hash)
  THEN [ret |-> TRUE, contacted |-> FALSE, delivered |-> FALSE,
        ledger |-> ledger, file |-> file]
  ELSE IF out = "ok"
       THEN LET kept == KeepLast(Append(ledger, hash)) IN
            [ret |-> TRUE, contacted |-> TRUE, delivered |-> TRUE,
             ledger |-> kept, file |-> kept]
       ELSE [ret |-> FALSE, contacted |-> TRUE, delivered |-> FALSE,
             ledger |-> ledger, file |-> file]

\* ---------------------------------------------------------------- main.py
\* mutant: a message that was sent is not counted as processed
CountSend_sentonly(st, sent) ==
  IF sent
  THEN [st EXCEPT !.notifications_sent = @ + 1]
  ELSE [st EXCEPT !.errors = @ + 1, !.emails_processed = @ + 1]

\* mutant: a failed send is not counted
CountSend_silent(st, sent) ==
  IF sent
  THEN [st EXCEPT !.notifications_sent = @ + 1, !.emails_processed = @ + 1]
  ELSE [st EXCEPT !.emails_processed = @ + 1]

\* the counters after send_maintenance_notification() answered sent
CountSend(st, sent) ==
  IF sent
  THEN [st EXCEPT !.notifications_sent = @ + 1, !.emails_processed = @ + 1]
  ELSE [st EXCEPT !.errors = @ + 1, !.emails_processed = @ + 1]

\* mutant: no error is taken for a connection error
IsLoopConnectionError_never(kind) == FALSE

\* the substring test of the loop of start()
IsLoopConnectionError(kind) == kind = "transient"

\* mutant: the counter is left at the maximum
AfterCooldown_kept(count) == count

\* "error_count = 0" after the cooldown
AfterCooldown(count) == 0

\* mutant: the flag is not looked at
AlreadyInitiated_never(flag) == FALSE

\* "if hasattr(self, '_shutdown_initiated')"
AlreadyInitiated(flag) == flag

\* disconnect(): close() and logout() in one try; close() is legal on a
\* selected connection only and leaves imaplib in state AUTH when it fails
disconnect(conn, out) ==
  IF conn = "None" THEN "None"
  ELSE IF conn = "SELECTED"
       THEN IF out = "ok" THEN "LOGOUT" ELSE "AUTH"
       ELSE conn

\* what connection.close() followed by connection.logout() raises: close() is
\* refused outside the selected state; cOut and lOut are the outcomes of the
\* two round trips
CloseLogoutError(conn, cOut, lOut) ==
  IF conn = "None" THEN "ok"
  ELSE IF conn # "SELECTED" THEN "terminal"
  ELSE IF cOut # "ok" THEN cOut ELSE lOut

\* mark_as_read(): True when the STORE was answered OK
mark_as_read(id, out) == out = "ok"

\* mutant: the error of the round trip leaves the function
Swallowed_raised(err) == IF err = "ok" THEN "none" ELSE err

\* "except Exception as e: self.logger.error(...)" of disconnect() and
\* "except: pass" of _disconnect_internal(): the exception that leaves
Swallowed(err) == "none"

VARIABLES
  now,           \* wall clock
  state_file,    \* last_check_time in the state file, NoCheckpoint if none
  mailbox,       \* the messages on the server
  connection,    \* self.connection: "None", "NONAUTH", "AUTH", "SELECTED"
  pc,            \* position in get_new_emails_from_sender
  caller,        \* "cycle" (main loop) or "api" (direct call)
  update_state,
  retry_count,
  attempt,       \* the loop variable
  new_email_ids,
  idx,           \* position in new_email_ids of the content loop
  emails,
  result,        \* the returned value
  proc,          \* "up" while the process runs
  h,             \* what happened in the current call
  running,       \* self.running
  shutdown_initiated,   \* the attribute _shutdown_initiated exists
  error_count,   \* the local of start()
  config,        \* the settings the loop reads
  stats,         \* self.stats
  sent_messages, \* the ledger in memory
  sent_file,     \* the ledger in sent_messages.json
  g              \* what happened in the run of start()

\* the state of main.py and telegram_bot.py
mvars == <<running, shutdown_initiated, error_count, config, stats,
           sent_messages, sent_file, g>>

vars == <<now, state_file, mailbox, connection, pc, caller, update_state,
          retry_count, attempt, new_email_ids, idx, emails, result, proc, h,
          running, shutdown_initiated, error_count, config, stats,
          sent_messages, sent_file, g>>

\* attempts: loop iterations begun; allTransient: every transport operation of
\* the call so far failed with a connection error; lastFail: how the connection
\* check or the search of the latest attempt failed ("ok" if it did not); before: the checkpoint when the call
\* began; searchAt, seen, all, last_check, hdrFailed: the clock, the mailbox
\* size, the candidates, the loaded checkpoint and the failed header fetches of
\* the search; contentFailed: ids whose content fetch failed; savedAt: the
\* clock when the call saved; exc: the exception leaving the call; check: how
\* the connection check of the current attempt ended ("none" before the first,
\* "failed", or the branch that answered True, "used" once the search ran)
NoHistory ==
  [attempts |-> 0, allTransient |-> TRUE, lastFail |-> "ok", check |-> "none",
   before |-> NoCheckpoint, searchAt |-> 0, seen |-> 0, all |-> <<>>,
   last_check |-> NoCheckpoint, searched |-> FALSE, hdrFailed |-> {},
   contentFailed |-> {}, savedAt |-> NoCheckpoint, exc |-> "none", env |-> 0]

ZeroStats == [emails_processed |-> 0, notifications_sent |-> 0, errors |-> 0]

\* the latest message of the batch: its id, its place in the batch, what became of it ("skipped" by
\* the gate, "norecord", "duplicate", "sent", "failed") and the counters before
NoEvent == [id |-> 0, pos |-> 0, outcome |-> "none", before |-> ZeroStats]

NoSend == [text |-> 0, known |-> FALSE, contacted |-> FALSE, delivered |-> FALSE]

\* resume: where the signal handler cut in; cycles: loop iterations begun;
\* signals: stop signals received; stops: runs of stop(); disconnects, notes:
\* its calls of disconnect() and of the stop message; closedAt: where the main
\* flow stood when disconnect() ran; exitAt: where everything stood at
\* os._exit; raised, countBefore, alerts, pause: the exception the loop caught
\* in this iteration, error_count before it, the alerts attempted and the
\* sleep taken; processed_count: the local of _process_new_emails; ev: the
\* latest message; log: the texts delivered to the chat, in order; texts: the
\* number of different texts delivered; send: the latest call of send_message;
\* fresh, got: for each message of the mailbox a finished cycle has seen,
\* whether its date was later than the checkpoint stored when it arrived, and
\* the number of cycles that returned it
\* (its text, whether the hash was in the ledger, whether the chat was called,
\* whether the text was delivered); restarts: restarts of the notifier
NoRun ==
  [resume |-> "none", cycles |-> 0, signals |-> 0, stops |-> 0,
   disconnects |-> 0, notes |-> 0, closedAt |-> "none", exitAt |-> "none",
   raised |-> "none", countBefore |-> 0, alerts |-> 0, pause |-> "none",
   processed_count |-> 0, ev |-> NoEvent, log |-> <<>>, texts |-> 0,
   send |-> NoSend, restarts |-> 0, fresh |-> <<>>, got |-> <<>>]

\* EmailTelegramBot.__init__ and the lines of start() before its loop
MainStart(max_errors) ==
  /\ running = TRUE
  /\ shutdown_initiated = FALSE
  /\ error_count = 0
  /\ config = [max_errors |-> max_errors]
  /\ stats = ZeroStats
  /\ sent_messages = <<>>
  /\ sent_file = <<>>
  /\ g = NoRun

Init ==
  /\ MainStart(DefaultMaxErrors)
  /\ now = DayLen
  /\ state_file = NoCheckpoint
  /\ mailbox = <<>>
  /\ connection \in {"None", "SELECTED"}
  /\ pc = "idle"
  /\ caller = "api"
  /\ update_state = TRUE
  /\ retry_count = 0
  /\ attempt = 0
  /\ new_email_ids = <<>>
  /\ idx = 0
  /\ emails = <<>>
  /\ result = EmptyList
  /\ proc = "up"
  /\ h = NoHistory

\* ------------------------------------------------------------ environment
\* Nothing reads the clock or the mailbox between the start of a call and its
\* search, nor between the search and the save, so time passing or a message
\* arriving there is the same as before the call or before the save.
EnvPoint == pc = "idle" \/ (pc = "save" /\ h.env < MaxEnv)

\* the environment steps taken since the search of the current call
EnvCount == [h EXCEPT !.env = IF pc = "save" THEN @ + 1 ELSE @]

Tick ==
  /\ EnvPoint
  /\ now < MaxTime
  /\ now' = now + 1
  /\ h' = EnvCount
  /\ UNCHANGED <<state_file, mailbox, connection, pc, caller, update_state,
                 retry_count, attempt, new_email_ids, idx, emails, result,
                 proc>>
  /\ UNCHANGED mvars

Arrive ==
  /\ EnvPoint
  /\ Len(mailbox) < MaxMsgs
  /\ \E hd \in {now - 1, now, now + 1}, s \in BOOLEAN :
       /\ (~s => hd = now)
       /\ mailbox' = Append(mailbox,
                            [internal |-> now, header |-> hd, sender |-> s])
  /\ h' = EnvCount
  /\ UNCHANGED <<now, state_file, connection, pc, caller, update_state,
                 retry_count, attempt, new_email_ids, idx, emails, result,
                 proc>>
  /\ UNCHANGED mvars

\* ------------------------------------------------------------------ calls
Begin(c, u, n) ==
  /\ pc = "idle"
  /\ proc = "up"
  /\ caller' = c
  /\ update_state' = u
  /\ retry_count' = n
  /\ attempt' = 0
  /\ new_email_ids' = <<>>
  /\ idx' = 0
  /\ emails' = <<>>
  /\ h' = [NoHistory EXCEPT !.before = state_file]
  /\ IF MoreAttempts(0, n)
     THEN pc' = "ensure" /\ result' = result
     ELSE pc' = "returned" /\ result' = ExhaustedResult
  /\ UNCHANGED <<now, state_file, mailbox, connection, proc>>

\* _process_new_emails() of the main loop
StartCycle == Begin("cycle", TRUE, CycleRetryCount) /\ UNCHANGED mvars

\* a direct call, as the diagnostics scripts make
StartCall ==
  /\ \E u \in BOOLEAN, n \in 1..MaxRetry : Begin("api", u, n)
  /\ UNCHANGED mvars

\* the end of a loop iteration that did not return
Continue(conn, hist) ==
  /\ connection' = conn
  /\ attempt' = attempt + 1
  /\ h' = hist
  /\ IF MoreAttempts(attempt + 1, retry_count)
     THEN pc' = "ensure" /\ result' = result
     ELSE pc' = "returned" /\ result' = ExhaustedResult

\* "break"
Break(conn, hist) ==
  /\ connection' = conn
  /\ attempt' = attempt
  /\ h' = hist
  /\ pc' = "returned"
  /\ result' = ExhaustedResult

\* the except clause of get_new_emails_from_sender
Handler(kind, conn, hist) ==
  IF IsConnectionError(kind)
  THEN Continue(_disconnect_internal(conn), [hist EXCEPT !.exc = "none"])
  ELSE Break(conn, [hist EXCEPT !.exc = "none"])

\* "if not self._ensure_connection(): continue"
EnsureConnection ==
  /\ pc = "ensure"
  /\ \E nOut \in Kinds, cOut \in ConnectOutcomes, sOut \in Kinds :
       \* an operation that does not run has no outcome to choose
       /\ connection = "None" => nOut = "ok"
       /\ (connection # "None" /\ nOut = "ok") => cOut = "ok"
       /\ cOut # "ok" => sOut = "ok"
       \* nothing is answered on a connection that was logged out
       /\ connection = "LOGOUT" => nOut = "transient"
       /\ LET r == _ensure_connection(connection, nOut, cOut, sOut)
              hist == [h EXCEPT !.attempts = @ + 1,
                                !.allTransient = @ /\ r.kinds = {"transient"},
                                !.lastFail = r.cause,
                                !.check = IF r.ret
                                          THEN CheckPath(connection, nOut)
                                          ELSE "failed"]
          IN IF CheckPassed(r.ret)
             THEN /\ connection' = r.conn
                  /\ pc' = "search"
                  /\ h' = hist
                  /\ UNCHANGED <<attempt, result>>
             ELSE Continue(r.conn, hist)
  /\ UNCHANGED <<now, state_file, mailbox, caller, update_state, retry_count,
                 new_email_ids, idx, emails, proc>>
  /\ UNCHANGED mvars

\* "new_email_ids = self.search_new_emails_from_sender(sender_email)"
Search ==
  /\ pc = "search"
  /\ \E out \in Kinds, failed \in SUBSET (1..Len(mailbox)) :
       LET r == search_new_emails_from_sender(connection, state_file, now,
                                              mailbox, out, failed)
           hist == [h EXCEPT !.allTransient = @ /\ r.kind = "transient",
                             !.lastFail = r.kind,
                             !.searchAt = now,
                             !.seen = Len(mailbox),
                             !.all = r.all,
                             !.last_check = r.last_check,
                             !.searched = TRUE,
                             !.check = "used",
                             !.hdrFailed = failed]
          \* a header fetch that fails matters only for a message that
          \* would have passed the date test
       IN /\ failed \subseteq {i \in Range(r.all) :
                                 IsNew(mailbox[i].header, r.last_check)}
          /\ r.last_check = NoCheckpoint => failed = {}
          /\ IF r.exc # "none"
             THEN /\ Handler(r.exc, connection, hist)
                  /\ UNCHANGED <<new_email_ids, idx, emails>>
             ELSE /\ new_email_ids' = r.ids
                  /\ idx' = 1
                  /\ emails' = <<>>
                  /\ h' = hist
                  /\ pc' = IF r.ids = <<>> THEN "save" ELSE "fetch"
                  /\ UNCHANGED <<connection, attempt, result>>
  /\ UNCHANGED <<now, state_file, mailbox, caller, update_state, retry_count,
                 proc>>
  /\ UNCHANGED mvars

\* one round of "for email_id in new_email_ids"
FetchContent ==
  /\ pc = "fetch"
  /\ \E out \in Kinds :
       LET id == new_email_ids[idx]
           r == get_email_content(id, out)
           hist == [h EXCEPT !.allTransient = @ /\ out = "transient",
                             !.contentFailed =
                               IF out = "ok" THEN @ ELSE @ \cup {id}]
          \* FETCH is legal on a selected connection only
       IN /\ connection # "SELECTED" => out = "terminal"
          /\ IF r.exc # "none"
             THEN /\ Handler(r.exc, connection, hist)
                  /\ UNCHANGED <<idx, emails>>
             ELSE /\ emails' = AppendIfData(emails, r.data)
                  /\ idx' = idx + 1
                  /\ h' = hist
                  /\ pc' = IF idx = Len(new_email_ids) THEN "save" ELSE "fetch"
                  /\ UNCHANGED <<connection, attempt, result>>
  /\ UNCHANGED <<now, state_file, mailbox, caller, update_state, retry_count,
                 new_email_ids, proc>>
  /\ UNCHANGED mvars

\* "if update_state: self.save_last_check_time()" and the return that follows
SaveAndReturn ==
  /\ pc = "save"
  /\ IF ShouldSave(update_state)
     THEN /\ state_file' = save_last_check_time(SaveArg(mailbox, emails), now)
          /\ h' = [h EXCEPT !.savedAt = now]
     ELSE UNCHANGED <<state_file, h>>
  /\ result' = [isList |-> TRUE, items |-> emails]
  /\ pc' = "returned"
  /\ UNCHANGED <<now, mailbox, connection, caller, update_state, retry_count,
                 attempt, new_email_ids, idx, emails, proc>>
  /\ UNCHANGED mvars

\* the caller takes the value: _process_new_emails() returns to the loop of
\* start(), which goes on to its sleep; a direct caller just goes on
Return ==
  /\ pc = "returned"
  /\ proc' = IF h.exc = "none" \/ caller = "cycle" THEN "up" ELSE "crashed"
  /\ pc' = "idle"
  /\ caller' = "api"
  /\ update_state' = TRUE
  /\ retry_count' = 0
  /\ attempt' = 0
  /\ new_email_ids' = <<>>
  /\ idx' = 0
  /\ emails' = <<>>
  /\ result' = EmptyList
  /\ h' = NoHistory
  /\ UNCHANGED <<now, state_file, mailbox, connection>>
  /\ UNCHANGED mvars

Next ==
  \/ Tick
  \/ Arrive
  \/ StartCycle
  \/ StartCall
  \/ EnsureConnection
  \/ Search
  \/ FetchContent
  \/ SaveAndReturn
  \/ Return

Spec == Init /\ [][Next]_vars

\* ------------------------------------------------- the loop of start()
\* The mailbox the loop reads: messages of the watched sender whose Date
\* header is ahead of the clock, as a naive reading of another time zone is.
MainContents ==
  {c \in Contents :
     /\ ~c.kwSubject
     /\ \/ ~c.kwBody /\ c.operator /\ ~c.start_time /\ ~c.end_time /\ ~c.work_type
        \/ c.kwBody /\ ~c.operator /\ ~c.start_time /\ ~c.end_time /\ c.work_type
        \/ c.kwBody /\ c.operator /\ c.start_time /\ c.end_time /\ c.work_type}

Msg(c) ==
  [internal |-> DayLen, header |-> DayLen + 1, sender |-> TRUE, content |-> c]

MainMailboxes ==
  UNION {[1..n -> {Msg(c) : c \in MainContents}] : n \in 0..MainMsgs}

\* start() has passed _test_connections(), which connects and selects
InitLoop(max_errors, mailboxes) ==
  /\ \E m \in max_errors : MainStart(m)
  /\ now = DayLen
  /\ state_file = NoCheckpoint
  /\ mailbox \in mailboxes
  /\ connection = "SELECTED"
  /\ pc = "idle"
  /\ caller = "api"
  /\ update_state = TRUE
  /\ retry_count = 0
  /\ attempt = 0
  /\ new_email_ids = <<>>
  /\ idx = 0
  /\ emails = <<>>
  /\ result = EmptyList
  /\ proc = "up"
  /\ h = NoHistory

\* max_errors is 1, where a single error is the maximum, or the default
InitMain == InitLoop({1, DefaultMaxErrors}, MainMailboxes)

\* "while self.running:" taken, up to the call of get_new_emails_from_sender
LoopIteration ==
  /\ running
  /\ g.cycles < MaxCycles
  /\ Begin("cycle", TRUE, CycleRetryCount)
  /\ g' = [g EXCEPT !.cycles = @ + 1, !.raised = "none",
                    !.countBefore = error_count, !.alerts = 0,
                    !.pause = "none", !.processed_count = 0, !.ev = NoEvent]
  /\ UNCHANGED <<running, shutdown_initiated, error_count, config, stats,
                 sent_messages, sent_file>>

\* "while self.running:" left; start() returns and the process ends
LoopExit ==
  /\ pc = "idle"
  /\ proc = "up"
  /\ ~running
  /\ pc' = "stopped"
  /\ UNCHANGED <<now, state_file, mailbox, connection, caller, update_state,
                 retry_count, attempt, new_email_ids, idx, emails, result,
                 proc, h>>
  /\ UNCHANGED mvars

\* mutant: the sleep is taken whatever the flag says
CycleDone_sleeps ==
  /\ error_count' = 0
  /\ pc' = "wait"

\* mutant: the counter is not reset
CycleDone_kept ==
  /\ error_count' = error_count
  /\ pc' = IF running THEN "wait" ELSE "idle"

\* _process_new_emails() has returned: "error_count = 0" on either branch,
\* then "if self.running: time.sleep(...)".  The clock is frozen within a
\* cycle, so the daily statistics report is never due here.
CycleDone ==
  /\ error_count' = 0
  /\ pc' = IF running THEN "wait" ELSE "idle"

\* "if not new_emails: return 0", else the batch is walked
TakeBatch ==
  /\ pc = "returned"
  /\ caller' = "api"
  /\ update_state' = TRUE
  /\ retry_count' = 0
  /\ attempt' = 0
  /\ new_email_ids' = <<>>
  /\ result' = EmptyList
  /\ h' = NoHistory
  /\ IF result.items = <<>>
     THEN /\ emails' = <<>>
          /\ idx' = 0
          /\ CycleDone
     ELSE /\ emails' = result.items
          /\ idx' = 1
          /\ pc' = "process"
          /\ error_count' = error_count
  /\ UNCHANGED <<now, state_file, mailbox, connection, proc, running,
                 shutdown_initiated, config, stats, sent_messages, sent_file,
                 g>>

\* one round of "for email_data in new_emails"
\* mutant: a message without a record is notified all the same
Notified_gated(gate, parsed_data) == gate

\* the two "continue" of the message loop: a message is handed to the
\* notifier when it passed the gate and extraction gave a record
Notified(gate, parsed_data) == gate /\ parsed_data.isRecord

ProcessEmail ==
  /\ pc = "process"
  /\ \E out \in {"ok", "fail"} :
       LET id == emails[idx]
           c == mailbox[id].content
           gate == is_maintenance_email(c)
           parsed_data == parse_email(c)
           notified == Notified(gate, parsed_data)
           r == send_message(sent_messages, sent_file,
                             format_for_telegram(id, parsed_data, now), out)
           outcome == IF ~gate THEN "skipped"
                      ELSE IF ~parsed_data.isRecord THEN "norecord"
                      ELSE IF ~r.contacted THEN "duplicate"
                      ELSE IF r.ret THEN "sent" ELSE "failed"
       IN \* a delivery that is not tried has no outcome to choose
          /\ (~notified \/ ~r.contacted) => out = "ok"
          /\ stats' = IF notified THEN CountSend(stats, r.ret) ELSE stats
          /\ sent_messages' = IF notified THEN r.ledger ELSE sent_messages
          /\ sent_file' = IF notified THEN r.file ELSE sent_file
          /\ g' = [g EXCEPT
                     !.ev = [id |-> id, pos |-> idx, outcome |-> outcome,
                             before |-> stats],
                     !.processed_count = IF notified /\ r.ret THEN @ + 1 ELSE @]
  /\ IF idx = Len(emails)
     THEN /\ emails' = <<>>
          /\ idx' = 0
          /\ CycleDone
     ELSE /\ emails' = emails
          /\ idx' = idx + 1
          /\ pc' = "process"
          /\ error_count' = error_count
  /\ UNCHANGED <<now, state_file, mailbox, connection, caller, update_state,
                 retry_count, attempt, new_email_ids, result, proc, h,
                 running, shutdown_initiated, config>>

\* a sleep of the loop lets the clock move on
Later == IF now < MaxTime THEN now + 1 ELSE now

\* "time.sleep(self.config['check_interval'])" returns
Sleep ==
  /\ pc = "wait"
  /\ now' = Later
  /\ pc' = "idle"
  /\ g' = [g EXCEPT !.pause = "interval"]
  /\ UNCHANGED <<state_file, mailbox, connection, caller, update_state,
                 retry_count, attempt, new_email_ids, idx, emails, result,
                 proc, h, running, shutdown_initiated, error_count, config,
                 stats, sent_messages, sent_file>>

\* "except Exception as e" of the loop.  _process_new_emails() catches
\* whatever is raised in it, so an exception reaches this clause only from
\* the statements after it, the last of which is the sleep.
BodyRaises ==
  /\ pc = "wait"
  /\ \E kind \in {"transient", "critical"}, out \in {"ok", "fail"} :
       LET count == error_count + 1
           atMax == count >= config.max_errors
           r == send_message(sent_messages, sent_file,
                             [kind |-> "alert", of |-> count, at |-> now], out)
       IN \* an alert that is not sent has no outcome to choose
          /\ (IsLoopConnectionError(kind) \/ ~atMax) => out = "ok"
          /\ IF IsLoopConnectionError(kind)
             THEN /\ g' = [g EXCEPT !.raised = kind,
                                    !.countBefore = error_count,
                                    !.pause = "minute"]
                  /\ UNCHANGED <<error_count, stats, sent_messages, sent_file>>
             ELSE /\ stats' = [stats EXCEPT !.errors = @ + 1]
                  /\ IF atMax
                     THEN /\ sent_messages' = r.ledger
                          /\ sent_file' = r.file
                          /\ error_count' = AfterCooldown(count)
                          /\ g' = [g EXCEPT !.raised = kind,
                                            !.countBefore = error_count,
                                            !.alerts = @ + 1,
                                            !.pause = "cooldown"]
                     ELSE /\ error_count' = count
                          /\ g' = [g EXCEPT !.raised = kind,
                                            !.countBefore = error_count,
                                            !.pause = "short"]
                          /\ UNCHANGED <<sent_messages, sent_file>>
  /\ now' = Later
  /\ pc' = "idle"
  /\ UNCHANGED <<state_file, mailbox, connection, caller, update_state,
                 retry_count, attempt, new_email_ids, idx, emails, result,
                 proc, h, running, shutdown_initiated, config>>

\* SIGINT or SIGTERM: signal_handler runs at once, on top of whatever the
\* main flow is doing, which goes on only when the handler has returned
Signal ==
  /\ proc = "up"
  /\ pc # "stopped"
  /\ IF AlreadyInitiated(shutdown_initiated)
     THEN \* os._exit(0): the process and all it held in memory are gone
          /\ proc' = "exited"
          /\ pc' = "exited"
          /\ g' = [g EXCEPT !.signals = @ + 1, !.exitAt = pc]
          /\ caller' = "api"
          /\ update_state' = TRUE
          /\ retry_count' = 0
          /\ attempt' = 0
          /\ new_email_ids' = <<>>
          /\ idx' = 0
          /\ emails' = <<>>
          /\ result' = EmptyList
          /\ h' = NoHistory
          /\ UNCHANGED <<running, shutdown_initiated>>
     ELSE /\ shutdown_initiated' = TRUE
          /\ running' = FALSE
          /\ pc' = "stop_disconnect"
          /\ g' = [g EXCEPT !.signals = @ + 1, !.stops = @ + 1, !.resume = pc]
          /\ UNCHANGED <<proc, caller, update_state, retry_count, attempt,
                         new_email_ids, idx, emails, result, h>>
  /\ UNCHANGED <<now, state_file, mailbox, connection, error_count, config,
                 stats, sent_messages, sent_file>>

\* stop(): "self.email_client.disconnect()"
StopDisconnect ==
  /\ pc = "stop_disconnect"
  /\ \E out \in {"ok", "fail"} :
       /\ connection # "SELECTED" => out = "ok"
       /\ connection' = disconnect(connection, out)
  /\ pc' = "stop_notify"
  /\ g' = [g EXCEPT !.disconnects = @ + 1, !.closedAt = g.resume]
  /\ UNCHANGED <<now, state_file, mailbox, caller, update_state, retry_count,
                 attempt, new_email_ids, idx, emails, result, proc, h,
                 running, shutdown_initiated, error_count, config, stats,
                 sent_messages, sent_file>>

\* stop(): the stop message; the handler returns to the main flow
StopNotify ==
  /\ pc = "stop_notify"
  /\ \E out \in {"ok", "fail"} :
       LET r == send_message(sent_messages, sent_file,
                             [kind |-> "stopped", of |-> 0, at |-> now], out)
       IN /\ sent_messages' = r.ledger
          /\ sent_file' = r.file
  /\ pc' = g.resume
  /\ g' = [g EXCEPT !.notes = @ + 1, !.resume = "none"]
  /\ UNCHANGED <<now, state_file, mailbox, connection, caller, update_state,
                 retry_count, attempt, new_email_ids, idx, emails, result,
                 proc, h, running, shutdown_initiated, error_count, config,
                 stats>>

NextMain ==
  \/ LoopIteration
  \/ EnsureConnection
  \/ Search
  \/ FetchContent
  \/ SaveAndReturn
  \/ TakeBatch
  \/ ProcessEmail
  \/ Sleep
  \/ BodyRaises

SpecMain == InitMain /\ [][NextMain]_vars

\* ------------------------------------------------------- the stop signals
\* a message that passes the gate and gives a record
Notice ==
  [kwSubject |-> TRUE, kwBody |-> TRUE, operator |-> TRUE,
   start_time |-> TRUE, end_time |-> TRUE, work_type |-> TRUE]

InitStop ==
  InitLoop({DefaultMaxErrors},
           UNION {[1..n -> {Msg(Notice)}] : n \in 0..MainMsgs})

NextStop ==
  \/ LoopIteration
  \/ EnsureConnection
  \/ Search
  \/ FetchContent
  \/ SaveAndReturn
  \/ TakeBatch
  \/ ProcessEmail
  \/ Sleep
  \/ Signal
  \/ StopDisconnect
  \/ StopNotify
  \/ LoopExit

SpecStop == InitStop /\ [][NextStop]_vars

\* Every statement of the main flow and of stop() returns: the round trips of
\* the mail session and of the notifier have timeouts and the sleep ends.
\* Signals and the start of another iteration are not forced.
MainFlow ==
  \/ EnsureConnection
  \/ Search
  \/ FetchContent
  \/ SaveAndReturn
  \/ TakeBatch
  \/ ProcessEmail
  \/ Sleep
  \/ StopDisconnect
  \/ StopNotify
  \/ LoopExit

SpecStopFair == SpecStop /\ WF_vars(MainFlow)

\* ------------------------------------------------ the notifier on its own
\* TelegramNotifier.__init__ with no ledger file yet
InitNotifier == InitLoop({DefaultMaxErrors}, {<<>>})

\* send_message(text), out the outcome of bot.send_message
CallSend(text, out) ==
  LET r == send_message(sent_messages, sent_file, text, out)
  IN /\ sent_messages' = r.ledger
     /\ sent_file' = r.file
     /\ g' = [g EXCEPT
                !.log = IF r.delivered THEN Append(@, text) ELSE @,
                !.texts = IF r.delivered /\ text > @ THEN text ELSE @,
                !.send = [text |-> text,
                          known |-> _create_message_hash(text)
                                      \in Range(sent_messages),
                          contacted |-> r.contacted,
                          delivered |-> r.delivered]]
     /\ UNCHANGED <<now, state_file, mailbox, connection, pc, caller,
                    update_state, retry_count, attempt, new_email_ids, idx,
                    emails, result, proc, h, running, shutdown_initiated,
                    error_count, config, stats>>

\* a text that was never delivered is sent
SendNew ==
  /\ Len(g.log) < MaxTexts
  /\ \E out \in {"ok", "fail"} : CallSend(g.texts + 1, out)

\* a text that was delivered before is sent again
SendAgain ==
  /\ Len(g.log) < MaxTexts
  /\ \E text \in 1..g.texts, out \in {"ok", "fail"} :
       \* a delivery that is not tried has no outcome to choose
       /\ _create_message_hash(text) \in Range(sent_messages) => out = "ok"
       /\ CallSend(text, out)

\* the process is started again: the ledger is read from the file
Restart ==
  /\ g.restarts < MaxRestarts
  /\ sent_messages' = _load_sent_messages(sent_file)
  /\ g' = [g EXCEPT !.restarts = @ + 1, !.send = NoSend]
  /\ UNCHANGED <<now, state_file, mailbox, connection, pc, caller,
                 update_state, retry_count, attempt, new_email_ids, idx,
                 emails, result, proc, h, running, shutdown_initiated,
                 error_count, config, stats, sent_file>>

NextNotifier == SendNew \/ SendAgain \/ Restart

SpecNotifier == InitNotifier /\ [][NextNotifier]_vars

\* ------------------------------------------------- the parser on its own
\* one message of any content is handed to the parser
InitParser ==
  /\ InitLoop({DefaultMaxErrors}, {<<Msg(c)>> : c \in Contents})
  /\ pc = "idle"

\* "is_maintenance = parser.is_maintenance_email(sample_email)"
CallGate ==
  /\ pc = "idle"
  /\ result = EmptyList
  /\ result' = [gate |-> is_maintenance_email(mailbox[1].content)]
  /\ pc' = "gated"
  /\ UNCHANGED <<now, state_file, mailbox, connection, caller, update_state,
                 retry_count, attempt, new_email_ids, idx, emails, proc, h>>
  /\ UNCHANGED mvars

\* "parsed_data = parser.parse_email(sample_email)"
CallParse ==
  /\ pc \in {"idle", "gated"}
  /\ result' = [record |-> parse_email(mailbox[1].content)]
  /\ pc' = "parsed"
  /\ UNCHANGED <<now, state_file, mailbox, connection, caller, update_state,
                 retry_count, attempt, new_email_ids, idx, emails, proc, h>>
  /\ UNCHANGED mvars

NextParser == CallGate \/ CallParse

SpecParser == InitParser /\ [][NextParser]_vars

\* ------------------------------------- cycles without transport failures
\* Every round trip succeeds; the clock and the mailbox move as in Spec.
CheckOk == EnsureConnection /\ h'.check \in {"connect", "noop"}

SearchOk == Search /\ h'.lastFail = "ok" /\ h'.hdrFailed = {}

FetchOk == FetchContent /\ h'.contentFailed = {}

\* the messages no finished cycle has accounted for arrived while the
\* checkpoint was the one the call began with
FreshOnArrival(mbox, known, before) ==
  [i \in 1..(Len(mbox) - known) |->
     /\ mbox[known + i].sender
     /\ before # NoCheckpoint
     /\ mbox[known + i].header > before]

\* one more return for each message of the batch
CountReturns(got, mbox, items) ==
  [i \in 1..Len(mbox) |->
     (IF i <= Len(got) THEN got[i] ELSE 0) +
     (IF i \in Range(items) THEN 1 ELSE 0)]

\* "new_emails = self.email_client.get_new_emails_from_sender(...)" of
\* _process_new_emails: the cycle takes the batch
CycleTakes ==
  /\ pc = "returned"
  /\ g' = [g EXCEPT
             !.fresh = @ \o FreshOnArrival(mailbox, Len(@), h.before),
             !.got = CountReturns(@, mailbox, result.items)]
  /\ pc' = "idle"
  /\ caller' = "api"
  /\ update_state' = TRUE
  /\ retry_count' = 0
  /\ attempt' = 0
  /\ new_email_ids' = <<>>
  /\ idx' = 0
  /\ emails' = <<>>
  /\ result' = EmptyList
  /\ h' = NoHistory
  /\ UNCHANGED <<now, state_file, mailbox, connection, proc, running,
                 shutdown_initiated, error_count, config, stats,
                 sent_messages, sent_file>>

\* the next iteration of the loop of start()
NextCycle ==
  /\ \A i \in 1..Len(g.got) : g.got[i] < MaxReturns
  /\ StartCycle

NextWindow ==
  \/ Tick
  \/ Arrive
  \/ NextCycle
  \/ CheckOk
  \/ SearchOk
  \/ FetchOk
  \/ SaveAndReturn
  \/ CycleTakes

SpecWindow == Init /\ [][NextWindow]_vars

\* ------------------------------------------- the mail session on its own
\* EmailClient.__init__: no connection
InitSession == Init /\ connection = "None"

\* a method of the session returned: what it was, what it answered, the error
\* of its transport operation and the exception that left it
Called(op, arg, ret, err, exc) ==
  /\ pc \in {"idle", "called"}
  /\ pc' = "called"
  /\ result' = [op |-> op, arg |-> arg, ret |-> ret, err |-> err,
                 exc |-> exc, before |-> connection]
  /\ UNCHANGED <<now, state_file, mailbox, caller, update_state, retry_count,
                 attempt, new_email_ids, idx, emails, proc, h>>
  /\ UNCHANGED mvars

CallConnect ==
  \E out \in ConnectOutcomes :
    LET r == connect(connection, out)
    IN /\ connection' = r.conn
       /\ Called("connect", 0, r.ret, ConnectKind(out), "none")

CallSelect ==
  \E out \in Kinds :
    LET r == select_mailbox(connection, out)
    IN /\ connection \notin {"AUTH", "SELECTED"} => out = "terminal"
       /\ connection' = r.conn
       /\ Called("select_mailbox", 0, r.ret, out, "none")

CallEnsure ==
  \E nOut \in Kinds, cOut \in ConnectOutcomes, sOut \in Kinds :
    LET r == _ensure_connection(connection, nOut, cOut, sOut)
    IN /\ connection = "None" => nOut = "ok"
       /\ (connection # "None" /\ nOut = "ok") => cOut = "ok"
       /\ cOut # "ok" => sOut = "ok"
       /\ connection = "LOGOUT" => nOut = "transient"
       /\ connection' = r.conn
       /\ Called("_ensure_connection", 0, r.ret, r.cause, "none")

\* the outcomes of close() and logout() that can be told apart
RoundTrips(conn) ==
  {o \in Kinds \X Kinds :
     /\ conn # "SELECTED" => o = <<"ok", "ok">>
     /\ o[1] # "ok" => o[2] = "ok"}

CallDisconnect ==
  \E o \in RoundTrips(connection) :
    LET err == CloseLogoutError(connection, o[1], o[2])
    IN /\ connection' = disconnect(connection, o[1])
       /\ Called("disconnect", 0, TRUE, err, Swallowed(err))

CallDisconnectInternal ==
  \E o \in RoundTrips(connection) :
    LET err == CloseLogoutError(connection, o[1], o[2])
    IN /\ connection' = _disconnect_internal(connection)
       /\ Called("_disconnect_internal", 0, TRUE, err, Swallowed(err))

\* FETCH and STORE are legal on a selected connection only
CallGetEmailContent ==
  \E id \in 1..MaxMsgs, out \in Kinds :
    LET r == get_email_content(id, out)
    IN /\ connection # "SELECTED" => out = "terminal"
       /\ connection' = connection
       /\ Called("get_email_content", id, r.data # 0, out, r.exc)

CallMarkAsRead ==
  \E id \in 1..MaxMsgs, out \in Kinds :
    /\ connection # "SELECTED" => out = "terminal"
    /\ connection' = connection
    /\ Called("mark_as_read", id, mark_as_read(id, out), out, "none")

NextSession ==
  \/ CallConnect
  \/ CallGetEmailContent
  \/ CallMarkAsRead
  \/ CallSelect
  \/ CallEnsure
  \/ CallDisconnect
  \/ CallDisconnectInternal

SpecSession == InitSession /\ [][NextSession]_vars

\* --------------------------------------------- the extractors on their own
SubjectWords == {Blank, "Re:", "RE:", "raboty", "RABOTY", "pismo"}
Subjects == UNION {[1..n -> SubjectWords] : n \in 0..MaxSubject}
Phrases == {"none", "Planovye raboty"}

Values == {"26.06.2025 19:00", "26.06.2025 20:00"}
Clauses ==
  [label : Range(StartLabels) \cup Range(EndLabels), sep : Separators,
   value : Values]
Texts == UNION {[1..n -> Clauses] : n \in 0..MaxClauses}

Mentions == [label : MentionLabels, name : MentionNames]

Labelled(label, value) == [label |-> label, sep |-> ":** ", value |-> value]

\* the message of test_devino_email.py
DevinoSample ==
  [subject |-> <<"Vneplanovye", Blank, "raboty", Blank, "na", Blank,
                 "platforme", Blank, "Devino", Blank, "Telecom">>,
   phrase |-> "Vneplanovye raboty na platforme Devino Telecom",
   clauses |-> <<Labelled("Nachalo rabot", "26.06.2025 19:00"),
                 Labelled("Okonchanie rabot", "26.06.2025 20:00")>>,
   mentions |-> <<[label |-> "raboty na platforme", name |-> "Devino Telecom"],
                  [label |-> "raboty na platforme", name |-> "Devino Telecom"],
                  [label |-> "platforme", name |-> "Devino Telecom"],
                  [label |-> "platformy", name |-> "DEVINO"]>>]

\* messages that differ in the subject and in the work-type phrase of the
\* text, in the labelled date-times, in the mentions of an operator
ExtractSamples ==
  {[subject |-> s, phrase |-> p,
    clauses |-> <<Labelled("Nachalo", "26.06.2025 19:00")>>,
    mentions |-> <<>>] : s \in Subjects, p \in Phrases}
  \cup {[subject |-> <<"pismo">>, phrase |-> "none", clauses |-> t,
         mentions |-> <<>>] : t \in Texts}
  \cup {[subject |-> <<"pismo">>, phrase |-> "none", clauses |-> <<>>,
         mentions |-> m] : m \in UNION {[1..n -> Mentions] : n \in 0..2}}
  \cup {DevinoSample}

InitExtract ==
  InitLoop({DefaultMaxErrors}, {<<m>> : m \in ExtractSamples})

\* "parsed_data = parser.parse_email(devino_email)"
CallParseText ==
  /\ pc = "idle"
  /\ result' = ParseText(mailbox[1])
  /\ pc' = "extracted"
  /\ UNCHANGED <<now, state_file, mailbox, connection, caller, update_state,
                 retry_count, attempt, new_email_ids, idx, emails, proc, h>>
  /\ UNCHANGED mvars

NextExtract == CallParseText

SpecExtract == InitExtract /\ [][NextExtract]_vars

\* ------------------------------------------------ the text of a notice
\* emoji_map, with the icons named
emoji_map ==
  [name \in {"Motiv", "Bilajn", "MTS", "Megafon", "Tele2", "Yota",
             "Devino Telecom", "Devino", "DEVINO"} |->
     CASE name = "Motiv" -> "phone"
       [] name = "Bilajn" -> "yellow"
       [] name = "MTS" -> "red"
       [] name = "Megafon" -> "green"
       [] name = "Tele2" -> "black"
       [] name = "Yota" -> "purple"
       [] OTHER -> "computer"]

DefaultEmoji == "antenna"
DefaultOperator == "Neizvestnyj operator"
DefaultWorkType == Found(<<"Tehnicheskie raboty">>)

\* "{work_type}" in an f-string: the text, and "None" for None
Written(work_type) ==
  IF work_type.found THEN work_type.text ELSE <<NoValue>>

\* dict.get(key, default): the default stands in for a missing key only; a
\* key whose value is None gives None
DictGet(d, key, default) == IF key \in DOMAIN d THEN d[key] ELSE default

\* the first lines of message_parts.  An f-string writes None as the text
\* "None", which is what NoValue is.
message_parts(parsed_data) ==
  LET operator == DictGet(parsed_data, "operator", DefaultOperator)
      work_type == DictGet(parsed_data, "work_type", DefaultWorkType)
      emoji == IF operator \in DOMAIN emoji_map THEN emoji_map[operator]
               ELSE DefaultEmoji
  IN [emoji |-> emoji, operator |-> operator,
      work_type |-> Written(work_type),
      start_time |-> parsed_data.start_time # NoValue,
      end_time |-> parsed_data.end_time # NoValue]

\* "message = self.parser.format_for_telegram(parsed_data)" on a record
CallFormat ==
  /\ pc = "extracted"
  /\ result.isRecord
  /\ result' = [parsed_data |-> result, message |-> message_parts(result)]
  /\ pc' = "formatted"
  /\ UNCHANGED <<now, state_file, mailbox, connection, caller, update_state,
                 retry_count, attempt, new_email_ids, idx, emails, proc, h>>
  /\ UNCHANGED mvars

NextFormat == CallParseText \/ CallFormat

SpecFormat == InitExtract /\ [][NextFormat]_vars

\* -------------------------------------- a parser called again and again
\* The parser object, as far as parse_email touches it: the attribute
\* _current_subject, absent or holding a subject.
NoAttribute == [present |-> FALSE, subject |-> <<>>]
EmailParser == [_current_subject |-> NoAttribute]

\* what parse_email returns when it returns None
NoRecord == [isRecord |-> FALSE]

\* mutant: the subject is stored only when none is there, and the except
\* clause leaves the attribute
parse_email_stale(parser, m, raises) ==
  LET attr == IF parser._current_subject.present
              THEN parser._current_subject
              ELSE [present |-> TRUE, subject |-> m.subject]
      parsed_data ==
        [ParseText(m) EXCEPT
           !.work_type = _extract_work_type(attr.subject, m.phrase)]
  IN IF raises
     THEN [parser |-> [_current_subject |-> attr], ret |-> NoRecord]
     ELSE [parser |-> [_current_subject |-> NoAttribute],
           ret |-> IF parsed_data.isRecord THEN parsed_data ELSE NoRecord]

\* parse_email() on a parser: the subject is stored in the attribute, the
\* work type is taken from the attribute, the attribute is deleted before
\* the test of the main fields and in the except clause.  raises: an
\* exception inside the try (a subject of None cannot be sliced for the log
\* line).
parse_email_on(parser, m, raises) ==
  LET attr == [present |-> TRUE, subject |-> m.subject]
      parsed_data ==
        [ParseText(m) EXCEPT
           !.work_type = IF attr.present
                         THEN _extract_work_type(attr.subject, m.phrase)
                         ELSE WorkTypeFromText(m.phrase)]
  IN IF raises
     THEN [parser |-> [_current_subject |-> NoAttribute], ret |-> NoRecord]
     ELSE [parser |-> [_current_subject |-> NoAttribute],
           ret |-> IF parsed_data.isRecord THEN parsed_data ELSE NoRecord]

\* messages with and without a work indicator in the subject, with and
\* without a work-type phrase in the text, with and without a start time
CallSamples ==
  {[subject |-> s, phrase |-> p, clauses |-> t, mentions |-> <<>>] :
     s \in {<<"raboty">>, <<"pismo">>, <<"Re:", Blank, "RABOTY">>},
     p \in Phrases,
     t \in {<<>>, <<Labelled("Nachalo", "26.06.2025 19:00")>>}}

InitCalls == InitLoop({DefaultMaxErrors}, [1..MaxMsgs -> CallSamples])

\* the parser before the next call: new, or as the last call left it
ParserNow == IF pc = "called" THEN result.parser ELSE EmailParser

\* "parsed_data = self.parser.parse_email(email_data)", on any message
CallParseEmail ==
  /\ pc \in {"idle", "called"}
  /\ \E i \in 1..MaxMsgs, raises \in BOOLEAN :
       LET r == parse_email_on(ParserNow, mailbox[i], raises)
       IN result' = [parser |-> r.parser, ret |-> r.ret, of |-> i,
                     raises |-> raises,
                     after |-> IF pc = "called"
                               THEN [of |-> result.of, raises |-> result.raises]
                               ELSE [of |-> 0, raises |-> FALSE]]
  /\ pc' = "called"
  /\ UNCHANGED <<now, state_file, mailbox, connection, caller, update_state,
                 retry_count, attempt, new_email_ids, idx, emails, proc, h>>
  /\ UNCHANGED mvars

NextCalls == CallParseEmail

SpecCalls == InitCalls /\ [][NextCalls]_vars

\* ------------------------------------------------------ the description
\* "[:300]"
DescriptionLimit == 300
\* len("...")
EllipsisLen == 3
\* the length of "Uvazhaemye klienty", as written in Russian
GreetingLen == 17

\* A body after the cleaning of lines 248-268, as far as the rest of the
\* function sees it: the number of characters before the greeting, whether
\* the greeting is there, the number of characters of the stripped text from
\* the greeting to the first end marker or the end, and what follows.  isText
\* is false for a body that is not a string, on which re.sub raises.
CleanBodies ==
  {b \in [isText : BOOLEAN, before : {0, 1, 299, 300, 301, 600},
          greeting : BOOLEAN, content : {0, 17, 299, 300, 301, 600},
          after : {0, 40}] :
     /\ b.greeting => b.content >= GreetingLen
     /\ ~b.greeting => (b.content = 0 /\ b.after = 0)
     /\ ~b.isText => (b.before = 0 /\ ~b.greeting)}

\* len(clean_body)
BodyLen(b) == b.before + b.content + b.after

\* a piece of the clean body: the characters from .. from + len - 1, with
\* "..." after them or not
Piece(from, len, dots) ==
  [kind |-> "text", from |-> from, len |-> len, dots |-> dots]

\* "Opisanie nedostupno" and "Oshibka obrabotki opisaniya"
Unavailable == [kind |-> "unavailable", from |-> 0, len |-> 19, dots |-> FALSE]
Failed == [kind |-> "failed", from |-> 0, len |-> 25, dots |-> FALSE]

\* mutant: the fallback returns the clean body whole
_extract_description_whole(b) ==
  IF ~b.isText THEN Failed
  ELSE IF b.greeting
       THEN IF b.content > DescriptionLimit
            THEN Piece(b.before, DescriptionLimit, TRUE)
            ELSE Piece(b.before, b.content, FALSE)
       ELSE IF BodyLen(b) = 0 THEN Unavailable
            ELSE Piece(0, BodyLen(b), FALSE)

\* _extract_description(): the text from the greeting on, else the clean
\* body, either cut to its first 300 characters with "..."
_extract_description(b) ==
  IF ~b.isText THEN Failed
  ELSE IF b.greeting
       THEN IF b.content > DescriptionLimit
            THEN Piece(b.before, DescriptionLimit, TRUE)
            ELSE Piece(b.before, b.content, FALSE)
       ELSE IF BodyLen(b) > DescriptionLimit
            THEN Piece(0, DescriptionLimit, TRUE)
            ELSE IF BodyLen(b) = 0 THEN Unavailable
            ELSE Piece(0, BodyLen(b), FALSE)

\* len(description)
DescriptionLen(d) == d.len + (IF d.dots THEN EllipsisLen ELSE 0)

InitDescribe == InitLoop({DefaultMaxErrors}, {<<b>> : b \in CleanBodies})

\* "'description': self._extract_description(body)"
CallDescription ==
  /\ pc = "idle"
  /\ result' = _extract_description(mailbox[1])
  /\ pc' = "described"
  /\ UNCHANGED <<now, state_file, mailbox, connection, caller, update_state,
                 retry_count, attempt, new_email_ids, idx, emails, proc, h>>
  /\ UNCHANGED mvars

NextDescribe == CallDescription

SpecDescribe == InitDescribe /\ [][NextDescribe]_vars

\* ------------------------------------------------------------- start-up
\* os.getenv('TELEGRAM_PROXY_URL'): not set, set to nothing, set to a URL
ProxyUrls == {NoValue, "", "http://proxy:8080"}

\* "if proxy_url:"
Truthy(proxy_url) == proxy_url \notin {NoValue, ""}

\* TelegramNotifier.__init__, statement by statement: attrs are the
\* attributes assigned when the statement runs.  Reading an attribute that
\* is not assigned raises AttributeError and the constructor is left.
TelegramNotifier(proxy_url, file) ==
  LET assigned == {"bot_token", "chat_id"}
      whole == assigned \cup {"bot", "logger", "sent_messages_file",
                              "sent_messages"}
  IN IF Truthy(proxy_url)
     THEN IF "logger" \in assigned
          THEN [raised |-> "none", attrs |-> whole, bot |-> "proxy",
                sent_messages |-> _load_sent_messages(file)]
          ELSE [raised |-> "AttributeError", attrs |-> assigned,
                bot |-> NoValue, sent_messages |-> <<>>]
     ELSE [raised |-> "none", attrs |-> whole, bot |-> "direct",
           sent_messages |-> _load_sent_messages(file)]

\* "self.telegram_bot = None": no object, so no attribute
NoNotifier ==
  [raised |-> "none", attrs |-> {}, bot |-> NoValue, sent_messages |-> <<>>]

\* the text of _send_startup_notification, which holds the time of the start
StartupMessage(clock) == [kind |-> "startup", of |-> 0, at |-> clock]

\* EmailTelegramBot.__init__ has run, start() has not
InitStartup ==
  /\ \E m \in {1, DefaultMaxErrors}, u \in ProxyUrls :
       config = [max_errors |-> m, telegram_proxy |-> u]
  /\ running = FALSE
  /\ shutdown_initiated = FALSE
  /\ error_count = 0
  /\ stats = ZeroStats
  /\ sent_messages = <<>>
  /\ \E t \in DayLen..MaxTime :
       sent_file \in {<<>>, <<_create_message_hash(StartupMessage(t))>>}
  /\ g = NoRun
  /\ now \in DayLen..MaxTime
  /\ state_file = NoCheckpoint
  /\ mailbox = <<>>
  /\ connection = "None"
  /\ pc = "start"
  /\ caller = "api"
  /\ update_state = TRUE
  /\ retry_count = 0
  /\ attempt = 0
  /\ new_email_ids = <<>>
  /\ idx = 0
  /\ emails = <<>>
  /\ result = [telegram_bot |-> NoNotifier, raised |-> "none"]
  /\ proc = "up"
  /\ h = NoHistory

\* _initialize_components(): the notifier is constructed inside the try;
\* whatever is raised makes it return False and start() return
InitializeComponents ==
  /\ pc = "start"
  /\ LET notifier == TelegramNotifier(config.telegram_proxy, sent_file)
     IN IF notifier.raised = "none"
        THEN /\ result' = [telegram_bot |-> notifier, raised |-> "none"]
             /\ sent_messages' = notifier.sent_messages
             /\ pc' = "initialized"
        ELSE /\ result' = [telegram_bot |-> NoNotifier,
                           raised |-> notifier.raised]
             /\ sent_messages' = sent_messages
             /\ pc' = "start_returned"
  /\ UNCHANGED <<now, state_file, mailbox, connection, caller, update_state,
                 retry_count, attempt, new_email_ids, idx, emails, proc, h,
                 running, shutdown_initiated, error_count, config, stats,
                 sent_file, g>>

\* _test_connections(), the mail part: connect() and select_mailbox()
TestMail ==
  /\ pc = "initialized"
  /\ \E connected \in BOOLEAN, selected \in BOOLEAN :
       /\ ~connected => ~selected
       /\ connection' = IF selected THEN "SELECTED"
                        ELSE IF connected THEN "AUTH" ELSE "None"
       /\ pc' = IF selected THEN "mail_tested" ELSE "start_returned"
  /\ UNCHANGED <<now, state_file, mailbox, caller, update_state,
                 retry_count, attempt, new_email_ids, idx, emails, result,
                 proc, h>>
  /\ UNCHANGED mvars

\* _test_connections(), the notifier part: telegram_bot.test_connection()
TestTelegram ==
  /\ pc = "mail_tested"
  /\ \E ok \in BOOLEAN : pc' = IF ok THEN "tested" ELSE "start_returned"
  /\ UNCHANGED <<now, state_file, mailbox, connection, caller, update_state,
                 retry_count, attempt, new_email_ids, idx, emails, result,
                 proc, h>>
  /\ UNCHANGED mvars

\* the handlers are set, the start-up notification is sent, "self.running =
\* True": the loop is about to begin
StartLoop ==
  /\ pc = "tested"
  /\ \E out \in {"ok", "fail"} :
       LET r == send_message(sent_messages, sent_file, StartupMessage(now),
                             out)
       IN /\ ~r.contacted => out = "ok"
          /\ sent_messages' = r.ledger
          /\ sent_file' = r.file
  /\ running' = TRUE
  /\ pc' = "idle"
  /\ UNCHANGED <<now, state_file, mailbox, connection, caller, update_state,
                 retry_count, attempt, new_email_ids, idx, emails, result,
                 proc, h, shutdown_initiated, error_count, config, stats, g>>

NextStartup ==
  \/ InitializeComponents
  \/ TestMail
  \/ TestTelegram
  \/ StartLoop

SpecStartup == InitStartup /\ [][NextStartup]_vars

\* ------------------------------------------- the three substring tests
\* the list of the except clause of get_new_emails_from_sender
FetcherSignatures == {"broken pipe", "connection", "socket", "timeout"}

\* the list of the except clause of _process_new_emails
ProcessSignatures == {"broken pipe", "connection", "socket", "timeout"}

\* the list of the except clause of the loop of start()
LoopSignatures == {"broken pipe", "connection", "socket", "timeout", "network"}

\* "error_msg = str(e).lower()": a description is the set of the fragments it
\* is made of
error_msg(desc) == {lower(w) : w \in desc}

\* "any(err in error_msg for err in [...])"
ErrorKind(desc, signatures) ==
  IF error_msg(desc) \cap signatures # {} THEN "transient" ELSE "terminal"

\* fragments of the descriptions of socket, ssl and imaplib errors
ErrorWords ==
  {"Broken pipe", "Connection", "socket", "timeout", "Network", "timed out",
   "denied"}

\* one description raised in each of the three try blocks
Classify ==
  /\ pc \in {"idle", "classified"}
  /\ \E desc \in SUBSET ErrorWords :
       result' =
         [desc |-> desc,
          fetcher |-> IsConnectionError(ErrorKind(desc, FetcherSignatures)),
          process |-> ErrorKind(desc, ProcessSignatures) = "transient",
          loop |-> IsLoopConnectionError(ErrorKind(desc, LoopSignatures))]
  /\ pc' = "classified"
  /\ UNCHANGED <<now, state_file, mailbox, connection, caller, update_state,
                 retry_count, attempt, new_email_ids, idx, emails, proc, h>>
  /\ UNCHANGED mvars

NextClassify == Classify

SpecClassify == InitSession /\ [][NextClassify]_vars

\* ------------------------------------------------------------------ claims
Returned == pc = "returned"

\* the call came back through the return after the search (lines 420-438)
Succeeded == Returned /\ h.searched

\* the messages of the candidate list whose header date is usable and
\* strictly later than t
LaterThan(t) ==
  {i \in Range(h.all) : i \notin h.hdrFailed /\ mailbox[i].header > t}

\* C1: when every transport operation of a call failed with a connection
\* error, the call returns the empty list after exactly retry_count attempts
\* and no exception leaves it.
C1_RetryExhaustion ==
  (Returned /\ h.allTransient) =>
    /\ h.attempts = retry_count
    /\ result = EmptyList
    /\ h.exc = "none"

C1_Witness ==
  Returned /\ h.allTransient /\ retry_count = CycleRetryCount /\ h.attempts = 3

\* C2: after a call that succeeded with update_state true, with or without
\* messages, the stored last_check_time is the clock reading of the write and
\* is not later than the clock.
C2_CheckpointIsNow ==
  (Succeeded /\ update_state) =>
    /\ h.savedAt # NoCheckpoint
    /\ state_file = h.savedAt
    /\ state_file <= now

C2_Witness ==
  /\ Succeeded /\ update_state
  /\ result.items # <<>>
  /\ mailbox[result.items[1]].header > now
  /\ state_file = now

\* C3: after a call, the stored checkpoint is not earlier than the one stored
\* before the call.
C3_Monotonic ==
  (Returned /\ h.before # NoCheckpoint) => state_file >= h.before

C3_Witness ==
  Succeeded /\ h.before # NoCheckpoint /\ state_file > h.before

C5_RetryOnTransient ==
  (Succeeded /\ h.lastFail = "transient") => h.attempts = retry_count

\* C6: after an attempt failed with a terminal error no further attempt is
\* begun, and the call returns the empty list.
C6_NoRetryAfterTerminal ==
  /\ pc = "ensure" => h.lastFail # "terminal"
  /\ (Returned /\ h.lastFail = "terminal") => result = EmptyList

\* C7: whatever the transport does, the call returns a list, no exception
\* leaves it and the process stays up for the next cycle.
C7_NeverRaises ==
  /\ Returned => (result.isList /\ h.exc = "none")
  /\ proc = "up"

C7_Witness ==
  /\ Returned /\ caller = "cycle"
  /\ h.attempts = retry_count /\ ~h.searched /\ h.lastFail = "terminal"

\* C8: the returned batch holds, in order, every accepted message whose
\* content fetch did not fail; a failed one is left out and nothing else is.
C8_DropOnlyFailed ==
  Succeeded =>
    result.items =
      SelectIds(new_email_ids, Range(new_email_ids) \ h.contentFailed)

C8_Witness ==
  Succeeded /\ h.contentFailed # {} /\ result.items # <<>>

\* C9: a call with update_state false leaves the checkpoint as it was when
\* the call began, at every point of the call.
C9_NoUpdate ==
  (pc # "idle" /\ ~update_state) => state_file = h.before

C9_Witness ==
  Succeeded /\ ~update_state /\ result.items # <<>> /\ state_file # now

\* a first-run search that the server answered
FirstRunSearched ==
  h.searched /\ h.last_check = NoCheckpoint /\ h.lastFail = "ok"

C11_CheckBeforeSearch ==
  /\ pc \in {"search", "fetch", "save"} => h.attempts = attempt + 1
  /\ pc = "search" =>
       /\ h.check \in {"connect", "noop", "reconnect"}
       /\ h.check # "noop" => connection = "SELECTED"
  /\ h.searched => h.check = "used"

C11_Witness ==
  pc = "search" /\ h.check = "reconnect" /\ attempt = 1 /\ h.attempts = 2

\* the positions at which a cycle's fetching, extracting and notifying is
\* under way
WorkInProgress == {"ensure", "search", "fetch", "save", "returned", "process"}

\* C12: a stop signal that arrives while a cycle's work is in progress lets
\* that work finish before the mail connection is closed: disconnect() never
\* runs on top of a fetch or of the processing of a batch.
C12_WorkFinishesFirst == g.closedAt \notin WorkInProgress

AtMaximum ==
  g.raised = "critical" /\ g.countBefore + 1 >= config.max_errors

\* C14: when the counter of consecutive critical errors reaches max_errors,
\* one alert is attempted (its failure goes unnoticed), the cooldown is slept
\* and the counter is zero before the next cycle; no alert is attempted
\* otherwise.
C14_AlertCooldownReset ==
  /\ AtMaximum =>
       /\ g.alerts = 1
       /\ g.pause = "cooldown"
       /\ error_count = 0
       /\ pc = "idle" /\ proc = "up" /\ running
  /\ g.alerts > 0 => AtMaximum

C14_Witness ==
  /\ AtMaximum
  /\ \A i \in 1..Len(sent_messages) : sent_messages[i].md5.kind # "alert"
  /\ g.cycles = MaxCycles

\* C15: an error from the cycle body that matches the connection signature
\* leaves the counter of critical errors as it was; the loop pauses and goes
\* on to the next cycle.
C15_TransientLeavesCounter ==
  g.raised = "transient" =>
    /\ error_count = g.countBefore
    /\ g.alerts = 0
    /\ g.pause = "minute"
    /\ pc = "idle" /\ proc = "up" /\ running

C15_Witness ==
  g.raised = "transient" /\ g.cycles = 1 /\ stats.errors = 0

\* the latest message of the batch has just been dealt with
JustProcessed == pc \in {"process", "wait"} /\ g.ev.outcome # "none"

\* C16: when the notifier answers failure for a message, errors goes up by
\* one (with emails_processed), the next message of the batch is taken, and
\* after the last one the loop goes to its sleep: it is not stopped.
C16_FailureCountedAndGoesOn ==
  (JustProcessed /\ g.ev.outcome = "failed") =>
    /\ stats = [g.ev.before EXCEPT !.errors = @ + 1, !.emails_processed = @ + 1]
    /\ pc = "process" => (idx = g.ev.pos + 1 /\ idx <= Len(emails))
    /\ proc = "up" /\ running

C16_Witness ==
  /\ JustProcessed /\ g.ev.outcome = "failed"
  /\ pc = "process" /\ g.ev.pos = 1

\* C17 as stated: a text that was delivered is never delivered again.
C17_NeverTwice ==
  \A i, j \in 1..Len(g.log) : g.log[i] = g.log[j] => i = j

\* C17 amended: send_message calls the chat only when the hash of the text is
\* not in the ledger; after a delivery the hash is in the ledger in memory
\* and in the file; so the same text is not delivered again, also after a
\* restart, until LedgerCap other deliveries have pushed its hash out.
C17_SuppressedWhileListed ==
  /\ g.send.contacted => ~g.send.known
  /\ g.send.known => ~g.send.delivered
  /\ g.send.delivered =>
       /\ _create_message_hash(g.send.text) \in Range(sent_messages)
       /\ _create_message_hash(g.send.text) \in Range(sent_file)
  /\ \A i, j \in 1..Len(g.log) :
       (i < j /\ g.log[i] = g.log[j]) => j - i > LedgerCap

C17_Witness ==
  /\ g.restarts = 1
  /\ g.send.known /\ ~g.send.contacted
  /\ g.send.text = 1 /\ Len(g.log) = LedgerCap

\* C18: the ledger never holds more than LedgerCap hashes; it holds the
\* hashes of the latest deliveries in the order of delivery, all of them up
\* to LedgerCap deliveries and the latest LedgerCap of them after that.
C18_LastHundred ==
  LET n == Len(g.log)
      first == IF n > LedgerCap THEN n - LedgerCap ELSE 0
  IN /\ Len(sent_messages) <= LedgerCap
     /\ Len(sent_messages) = n - first
     /\ \A i \in 1..Len(sent_messages) :
          sent_messages[i] = _create_message_hash(g.log[first + i])

C18_Witness ==
  /\ Len(g.log) = LedgerCap + 1
  /\ Len(sent_messages) = LedgerCap
  /\ sent_messages[1] = _create_message_hash(2)
  /\ sent_messages[LedgerCap] = _create_message_hash(LedgerCap + 1)

\* C19: parse_email returns a record exactly when one of operator,
\* start_time, end_time was found; a description and a work type alone give
\* none, an operator alone gives one.
C19_RecordIffCoreField ==
  pc = "parsed" =>
    LET c == mailbox[1].content
    IN result.record.isRecord <=> (c.operator \/ c.start_time \/ c.end_time)

C19_Witness ==
  /\ pc = "parsed" /\ result.record.isRecord
  /\ LET c == mailbox[1].content
     IN c.operator /\ ~c.start_time /\ ~c.end_time /\ ~c.work_type

\* C20: the notifier is called for a message only if the message holds a
\* keyword phrase and one of operator, start_time, end_time was found in it;
\* a message without a keyword phrase is skipped before extraction, and
\* nothing is counted or sent for it.
C20_GateBeforeNotify ==
  JustProcessed =>
    LET c == mailbox[g.ev.id].content
    IN /\ g.ev.outcome \in {"sent", "failed", "duplicate"} =>
            /\ c.kwSubject \/ c.kwBody
            /\ c.operator \/ c.start_time \/ c.end_time
       /\ ~(c.kwSubject \/ c.kwBody) =>
            (g.ev.outcome = "skipped" /\ stats = g.ev.before)

C20_Witness ==
  /\ JustProcessed /\ g.ev.outcome = "skipped"
  /\ mailbox[g.ev.id].content.operator
  /\ g.ev.pos = 2 /\ stats.notifications_sent = 1

\* the subject without the blanks at its ends
Trimmed(s) ==
  LET words == {i \in 1..Len(s) : s[i] # Blank}
  IN IF words = {} THEN <<>>
     ELSE SubSeq(s, CHOOSE i \in words : \A j \in words : i <= j,
                    CHOOSE i \in words : \A j \in words : i >= j)

\* the subject without one leading reply prefix
WithoutReply(s) ==
  LET t == Trimmed(s)
  IN IF t # <<>> /\ t[1] \in {"Re:", "RE:"} THEN Trimmed(Tail(t)) ELSE t

\* C21: when the subject without its leading reply prefix holds a work
\* indicator, the work_type of the record is that subject, word for word,
\* whatever work-type phrase the text holds.
C21_SubjectIsWorkType ==
  (pc = "extracted" /\ HasIndicator(WithoutReply(mailbox[1].subject))) =>
    result.work_type = Found(WithoutReply(mailbox[1].subject))

C21_Witness ==
  /\ pc = "extracted"
  /\ mailbox[1].subject = <<"Re:", Blank, "RABOTY">>
  /\ mailbox[1].phrase = "Planovye raboty"
  /\ result.work_type = Found(<<"RABOTY">>)

\* the places of the text where the k-th pattern of labels matches
Hits(labels, k, clauses) ==
  {i \in 1..Len(clauses) :
     clauses[i].label = labels[k] /\ SepMatches(clauses[i].sep)}

\* the value after the leftmost match of the first pattern that matches
FirstRuleValue(labels, clauses) ==
  LET ks == {k \in 1..Len(labels) : Hits(labels, k, clauses) # {}}
      k == CHOOSE a \in ks : \A b \in ks : a <= b
      i == CHOOSE a \in Hits(labels, k, clauses) :
             \A b \in Hits(labels, k, clauses) : a <= b
  IN clauses[i].value

C23_CloseNeverRaises ==
  (pc = "called" /\ result.op \in {"disconnect", "_disconnect_internal"}) =>
    /\ result.exc = "none"
    /\ result.op = "_disconnect_internal" => connection = "None"

C23_Witness ==
  /\ pc = "called"
  /\ result.op = "_disconnect_internal"
  /\ result.before = "SELECTED"
  /\ result.err = "transient"
  /\ result.exc = "none"
  /\ connection = "None"

\* C24: a call whose server-side search failed, or whose content fetches all
\* failed, leaves the checkpoint as it was before the call.
C24_KeptOnFailure ==
  (/\ Returned
   /\ h.searched
   /\ \/ h.lastFail # "ok"
      \/ /\ new_email_ids # <<>>
         /\ Range(new_email_ids) \subseteq h.contentFailed) =>
    state_file = h.before

\* C25: _ensure_connection() answers True only when the connection it leaves
\* is authenticated and has a mailbox selected.
C25_UsableMeansSelected ==
  (pc = "called" /\ result.op = "_ensure_connection" /\ result.ret) =>
    connection = "SELECTED"

\* the messages a finished cycle has accounted for
Accounted == 1..Len(g.got)

\* the call that just came back returns message i
InBatch(i) == Returned /\ i \in Range(result.items)

\* C26: with no transport failure, a sender message that was dated later than
\* the checkpoint stored when it arrived, and that no cycle has returned yet,
\* is still dated later than the checkpoint, so that a later search accepts it.
C26_FreshStaysAhead ==
  \A i \in Accounted :
    (g.fresh[i] /\ g.got[i] = 0 /\ ~InBatch(i)) =>
      mailbox[i].header > state_file

\* C27: no message is returned by two cycles.
C27_ReturnedOnce == \A i \in Accounted : g.got[i] <= 1

\* C28: a call none of whose liveness checks passed ran one check per attempt,
\* searched nothing, fetched nothing, returns the empty list and leaves the
\* checkpoint as it found it.
C28_NoCheckNoWork ==
  (Returned /\ h.check = "failed") =>
    /\ h.attempts = retry_count
    /\ ~h.searched
    /\ new_email_ids = <<>> /\ emails = <<>> /\ h.contentFailed = {}
    /\ result = EmptyList
    /\ state_file = h.before

C28_Witness ==
  /\ Returned /\ h.check = "failed"
  /\ h.attempts = CycleRetryCount
  /\ state_file # NoCheckpoint
  /\ \E i \in 1..Len(mailbox) :
       mailbox[i].sender /\ mailbox[i].header > state_file

\* C29: with a checkpoint loaded, a candidate whose date cannot be read is in
\* neither the accepted ids nor the returned batch, and every candidate whose
\* date was read and is later than the checkpoint is accepted.
C29_UnreadableDateExcluded ==
  (h.searched /\ h.last_check # NoCheckpoint) =>
    /\ \A i \in h.hdrFailed :
         /\ i \notin Range(new_email_ids)
         /\ Returned => i \notin Range(result.items)
    /\ \A i \in Range(h.all) \ h.hdrFailed :
         mailbox[i].header > h.last_check => i \in Range(new_email_ids)

C29_Witness ==
  /\ Returned /\ h.searched /\ h.last_check # NoCheckpoint
  /\ h.hdrFailed # {}
  /\ \E i \in h.hdrFailed : mailbox[i].header > h.last_check
  /\ result.items # <<>>

\* C30: the except clause of the fetcher and those of the cycle controller
\* (_process_new_emails and the loop of start()) give every description the
\* same class.
C30_SameClass ==
  pc = "classified" =>
    /\ result.fetcher = result.loop
    /\ result.process = result.loop

\* the places of the ledger that hold the hash of a notice of message id
NoticesOf(id) ==
  {i \in 1..Len(sent_messages) :
     sent_messages[i].md5.kind = "notice" /\ sent_messages[i].md5.of = id}

\* C31: the notice of one message is delivered to the chat at most once,
\* however much later the message is processed again.
C31_OneNoticePerRecord ==
  \A id \in 1..Len(mailbox) : Cardinality(NoticesOf(id)) <= 1

\* C32: a step changes the ledger in memory only by appending the hash of the
\* text it just delivered and cutting to the cap; a failed delivery and a
\* suppressed duplicate leave it as it was; no hash is in the ledger twice.
C32_AppendOnDelivery ==
  /\ [](Cardinality(Range(sent_messages)) = Len(sent_messages))
  /\ [][sent_messages' # sent_messages =>
          /\ g'.send.delivered
          /\ sent_messages' =
               KeepLast(Append(sent_messages,
                               _create_message_hash(g'.send.text)))]_vars

C32_Witness ==
  /\ g.send.contacted /\ ~g.send.delivered
  /\ sent_messages # <<>>
  /\ _create_message_hash(g.send.text) \notin Range(sent_messages)

NoRecordAtHand ==
  /\ pc = "process"
  /\ is_maintenance_email(mailbox[emails[idx]].content)
  /\ ~parse_email(mailbox[emails[idx]].content).isRecord

\* C36: handling a gated message that gives no record leaves every statistic
\* and the ledger as they were, does not raise the critical-error counter, and
\* goes on to the next message of the batch.
C36_NoRecordIsNoError ==
  [][(NoRecordAtHand /\ (idx' # idx \/ pc' # pc)) =>
       /\ stats' = stats
       /\ sent_messages' = sent_messages
       /\ sent_file' = sent_file
       /\ g'.processed_count = g.processed_count
       /\ error_count' \in {error_count, 0}
       /\ g'.ev.outcome = "norecord"
       /\ idx < Len(emails) =>
            (idx' = idx + 1 /\ emails' = emails /\ pc' = "process")]_vars

C36_Witness ==
  /\ pc = "process" /\ idx = 2
  /\ g.ev.outcome = "norecord" /\ g.ev.pos = 1
  /\ stats = g.ev.before
  /\ error_count = 1

\* C37: in the text of a record without an operator the operator line shows
\* the default label under the default icon, in the text of a record without
\* a work type the work-type line shows the default label, and neither line
\* shows the text "None".
C37_DefaultLabels ==
  pc = "formatted" =>
    /\ result.parsed_data.operator = NoValue =>
         (result.message.operator = DefaultOperator
            /\ result.message.emoji = DefaultEmoji)
    /\ result.parsed_data.work_type = Absent =>
         result.message.work_type = DefaultWorkType.text
    /\ result.message.operator # NoValue
    /\ result.message.work_type # <<NoValue>>

C39_DescriptionBounded ==
  pc = "described" =>
    LET b == mailbox[1]
        source == IF b.greeting THEN [from |-> b.before, len |-> b.content]
                  ELSE [from |-> 0, len |-> BodyLen(b)]
    IN /\ DescriptionLen(result) >= 1
       /\ DescriptionLen(result) <= DescriptionLimit + EllipsisLen
       /\ (b.isText /\ source.len > DescriptionLimit) =>
            result = Piece(source.from, DescriptionLimit, TRUE)
       /\ (b.isText /\ source.len \in 1..DescriptionLimit) =>
            result = Piece(source.from, source.len, FALSE)
       /\ (b.isText /\ source.len = 0) => result = Unavailable

C39_Witness ==
  /\ pc = "described"
  /\ ~mailbox[1].greeting /\ mailbox[1].before = 301
  /\ result = Piece(0, DescriptionLimit, TRUE)
  /\ DescriptionLen(result) = 303

\* C40: with a proxy URL configured, once _initialize_components() has run
\* the notifier exists with its logger and its client, and start() has gone
\* on to the connection tests.
C40_ProxyNotifierUsable ==
  (Truthy(config.telegram_proxy) /\ pc # "start") =>
    /\ result.raised = "none"
    /\ {"logger", "bot"} \subseteq result.telegram_bot.attrs
    /\ pc = "start_returned" => connection # "None"

TypeOK ==
  /\ now \in DayLen..MaxTime
  /\ state_file \in {NoCheckpoint} \cup DayLen..MaxTime
  /\ connection \in {"None", "NONAUTH", "AUTH", "SELECTED", "LOGOUT"}
  /\ pc \in {"idle", "ensure", "search", "fetch", "save", "returned",
             "process", "wait", "stop_disconnect", "stop_notify", "stopped",
             "exited", "gated", "parsed"}
  /\ running \in BOOLEAN
  /\ error_count \in 0..config.max_errors
====
